---- MODULE Spec2Model ----
(***************************************************************************)
(* A model of jerzy's tool-result cache (core.py, ToolCache), of its       *)
(* thread-indexed conversation memory (memory.py, Memory / EnhancedMemory) *)
(* and of its versioned key/value state (core.py, State).                  *)
(*                                                                         *)
(* Python values are encoded as follows.                                   *)
(*   - Optional[x]: the empty sequence <<>> is None, <<x>> is the value x.  *)
(*   - dict: a sequence of entries in the dict's iteration order, which in *)
(*     Python >= 3.7 (setup.py requires >= 3.8) is the order in which the  *)
(*     keys were first inserted; overwriting a key keeps its position,     *)
(*     deleting it and inserting it again moves it to the end.             *)
(*   - list indices are kept 0-based as in the source; the i-th element of *)
(*     a Python list l is l[i + 1] here.                                   *)
(***************************************************************************)
EXTENDS Integers, Sequences, FiniteSets, TLC

VARIABLES
    \* ---- ToolCache (core.py) ----
    cache,          \* self.cache: dict key -> (result, timestamp), in dict order
    max_size,       \* self.max_size
    ttl,            \* self.ttl: Optional[int]
    now,            \* the value time.time() returns
    cache_ret,      \* how the last ToolCache call ended: what it returned or raised
    ins_order,      \* history variable: the present keys, earliest insertion first
    last_set,       \* history variable: present key -> its latest set (time, result)
    last_drop,      \* history variable: the keys the last call took out of the dict
    passed,         \* history variable: the arguments of a set and of the get after it
    \* ---- Memory / EnhancedMemory (memory.py) ----
    history,        \* self.history: list of entries
    tool_calls,     \* self.tool_calls
    reasoning_steps,\* self.reasoning_steps
    threads,        \* self.threads: dict thread id -> list of history indices
    current_thread, \* self.current_thread
    indexed_content,\* self.indexed_content: dict word -> list of history indices
    mem_ret,        \* how the last memory call ended, as its caller sees it
    mem_call,       \* history variable: the last memory call and its keep_last_n
    next_uid,       \* the identity the next entry object gets
    appended,       \* history variable: thread id -> uids appended to it, in order
    posted,         \* history variable: word -> uids indexed under it, in order
    disk,           \* the file save_to_file wrote last, if any
    caught,         \* history variable: the exception the last load_from_file caught
    saved,          \* history variable: the memory as the last save_to_file found it
    storage,        \* self.storage: dict key -> value
    max_history_length, \* self.max_history_length
    \* ---- add_to_thread and prune_history taken statement by statement ----
    adder,          \* the activity in add_to_thread: its position and its locals
    pruner,         \* the activity in prune_history: its position and its locals
    preempted,      \* history variable: an activity has run inside the other's call
    \* ---- State (core.py) ----
    data,           \* self.data: the tree of dicts the dotted keys lead through
    state_history,  \* self.history of State: the change log
    version,        \* self.version
    lists,          \* the list objects append_to has made, by their identity
    state_ret       \* how the last State call ended

cacheVars == <<cache, max_size, ttl, now, cache_ret, ins_order, last_set, last_drop,
               passed>>

memVars == <<history, tool_calls, reasoning_steps, threads, current_thread,
             indexed_content, mem_ret, mem_call, next_uid, appended, posted,
             disk, caught, saved>>

stateVars == <<data, state_history, version, lists, state_ret>>

\* what only Memory.set and the statement-by-statement activities write
sideVars == <<storage, max_history_length, adder, pruner, preempted>>

vars == <<cacheVars, memVars, stateVars, sideVars>>

(***************************************************************************)
(* Bounds of the model.                                                    *)
(***************************************************************************)
MaxSize == 2        \* max_size is drawn from 0..MaxSize
MaxTime == 1        \* the clock runs from 0 to MaxTime
MaxAppends == 3     \* entries appended to the history over a run
MaxKeep == 2        \* keep_last_n is None or drawn from -1..MaxKeep
MaxLoadAppends == 2 \* entries appended over a run that saves and loads
MaxLastN == 2       \* last_n is None or drawn from 0..MaxLastN
MaxQueryAppends == 2 \* entries appended over a run that makes queries
MaxTopK == 2        \* top_k is drawn from 0..MaxTopK
MaxVersion == 3     \* State.set and append_to are called while version < MaxVersion
MaxRaceAppends == 3 \* add_to_thread calls over a run taken statement by statement
MaxViewAppends == 2 \* entries appended over a run that watches the classified views
MaxGrowAppends == 2 \* entries appended over a run under every call of the memory
MaxRaceKeep == 1    \* there, keep_last_n is None or drawn from 1..MaxRaceKeep

\* The values ttl is configured with: None, 0 and 1
TtlInputs == {<<>>, <<0>>, <<1>>}

ToolNames == {"f", "g"}
Results == {1, 2}

\* Argument names in lexicographic order; json.dumps(sort_keys=True) sorts by it.
ArgNames == <<"a", "b">>

\* Argument mappings as a caller can build them: a dict keeps the order in
\* which its items were written, so {"a": 1, "b": 2} and {"b": 2, "a": 1} are
\* two different inputs with the same name/value pairs.
ArgInputs ==
    { <<>>,
      << <<"a", 1>>, <<"b", 2>> >>,
      << <<"b", 2>>, <<"a", 1>> >> }

(***************************************************************************)
(* Helpers on sequences.                                                   *)
(***************************************************************************)
Range(s) == {s[i] : i \in DOMAIN s}

\* s without its i-th element
RemoveAt(s, i) == SubSeq(s, 1, i - 1) \o SubSeq(s, i + 1, Len(s))

\* the position of argument name n in the lexicographic order
NameRank(n) == CHOOSE i \in DOMAIN ArgNames : ArgNames[i] = n

\* insert pair p into the name-sorted sequence s
RECURSIVE InsertSorted(_, _)
InsertSorted(p, s) ==
    IF s = <<>> THEN <<p>>
    ELSE IF NameRank(p[1]) <= NameRank(Head(s)[1]) THEN <<p>> \o s
    ELSE <<Head(s)>> \o InsertSorted(p, Tail(s))

\* json.dumps(args, sort_keys=True): the items of args ordered by name
RECURSIVE SortedArgs(_)
SortedArgs(args) ==
    IF args = <<>> THEN <<>>
    ELSE InsertSorted(Head(args), SortedArgs(Tail(args)))

(***************************************************************************)
(* ToolCache                                                               *)
(***************************************************************************)
\* Mutant of GenerateKey: the arguments are written in the order of the dict.
GenerateKeyUnsorted(tool_name, args) == <<tool_name, args>>

\* f"{tool_name}:{sorted_args}"
GenerateKey(tool_name, args) == <<tool_name, SortedArgs(args)>>

CacheKeys == {cache[i].key : i \in DOMAIN cache}

\* the position of key k in the dict (k must be present)
CachePos(k) == CHOOSE i \in DOMAIN cache : cache[i].key = k

RetNone == [kind |-> "None", val |-> 0]
RetValue(v) == [kind |-> "value", val |-> v]
RetRaised == [kind |-> "raised", val |-> 0]

NoDrop == [op |-> "none", keys |-> {}]

\* no set and no get has been recorded
NonePassed == [set |-> <<>>, get |-> <<>>]

CacheInit ==
    /\ cache = <<>>
    /\ max_size \in 0..MaxSize
    /\ ttl \in TtlInputs
    /\ now = 0
    /\ cache_ret = RetNone
    /\ ins_order = <<>>
    /\ last_set = <<>>
    /\ last_drop = NoDrop
    /\ passed = NonePassed

\* time.time() advances between calls
Tick ==
    /\ now < MaxTime
    /\ now' = now + 1
    /\ UNCHANGED <<cache, max_size, ttl, cache_ret, ins_order, last_set, last_drop,
                   passed>>
    /\ UNCHANGED <<memVars, stateVars, sideVars>>

\* The history variables after call `op` left the dict as c, having stored
\* `stored` (for set: <<key, result>>; otherwise <<>>): a key that is new to the
\* dict joins the insertion order at its end, a key that left the dict leaves
\* the order, a stored key is stamped with the time of the call.
Track(op, c, stored) ==
    LET keys == {c[i].key : i \in DOMAIN c}
        kept == SelectSeq(ins_order, LAMBDA k : k \in keys)
        isSet(k) == stored # <<>> /\ stored[1] = k
        gone == CacheKeys \ keys
    IN  /\ ins_order' = IF stored # <<>> /\ stored[1] \in keys \ Range(ins_order)
                        THEN Append(kept, stored[1])
                        ELSE kept
        /\ last_set' = [k \in keys |->
                          IF isSet(k) THEN [at |-> now, result |-> stored[2]]
                          ELSE last_set[k]]
        /\ last_drop' = IF gone = {} THEN NoDrop ELSE [op |-> op, keys |-> gone]

\* Mutant of Expired: the entry expires as soon as its age reaches ttl.
ExpiredAtTtl(i) == ttl # <<>> /\ now - cache[i].timestamp >= ttl[1]

\* time.time() - timestamp > self.ttl, for the entry at position i
Expired(i) == ttl # <<>> /\ now - cache[i].timestamp > ttl[1]

\* ToolCache.get: the dict it leaves and what it returns
GetResult(key) ==
    IF key \in CacheKeys
    THEN LET i == CachePos(key) IN
         IF Expired(i)
         THEN [cache |-> RemoveAt(cache, i), ret |-> RetNone]
         ELSE [cache |-> cache, ret |-> RetValue(cache[i].result)]
    ELSE [cache |-> cache, ret |-> RetNone]

\* ToolCache.get, called: its effect on the cache
GetCall(tool_name, args) ==
    LET r == GetResult(GenerateKey(tool_name, args)) IN
    /\ cache' = r.cache
    /\ cache_ret' = r.ret
    /\ Track("get", r.cache, <<>>)
    /\ UNCHANGED <<max_size, ttl, now>>
    /\ UNCHANGED <<memVars, stateVars, sideVars>>

CacheGet(tool_name, args) == GetCall(tool_name, args) /\ UNCHANGED passed

\* the same call, its arguments recorded as they were passed
KeyedGet(tool_name, args) ==
    /\ GetCall(tool_name, args)
    /\ passed' = [passed EXCEPT !.get = <<tool_name, args>>]

\* Mutant of CacheStore: a key that is present is taken out and put in again
\* at the end of the dict.
CacheStoreAtEnd(c, key, result) ==
    Append(SelectSeq(c, LAMBDA x : x.key # key),
           [key |-> key, result |-> result, timestamp |-> now])

\* the dict c after c[key] = (result, time.time())
CacheStore(c, key, result) ==
    LET e == [key |-> key, result |-> result, timestamp |-> now] IN
    IF \E i \in DOMAIN c : c[i].key = key
    THEN [i \in DOMAIN c |-> IF c[i].key = key THEN e ELSE c[i]]
    ELSE Append(c, e)

\* Mutant of SetResult: a full dict is not made room in.
SetResultNoEvict(key, result) ==
    [cache |-> CacheStore(cache, key, result), ret |-> RetNone]

\* ToolCache.set: the dict it leaves and how it ends. With an empty dict and
\* max_size <= 0, next(iter(self.cache)) raises StopIteration before anything
\* is stored.
SetResult(key, result) ==
    IF Len(cache) >= max_size /\ key \notin CacheKeys
    THEN IF cache = <<>>
         THEN [cache |-> cache, ret |-> RetRaised]
         ELSE [cache |-> CacheStore(Tail(cache), key, result), ret |-> RetNone]
    ELSE [cache |-> CacheStore(cache, key, result), ret |-> RetNone]

\* ToolCache.set, called: its effect on the cache
SetCall(tool_name, args, result) ==
    LET key == GenerateKey(tool_name, args)
        r == SetResult(key, result)
    IN  /\ cache' = r.cache
        /\ cache_ret' = r.ret
        /\ Track("set", r.cache, <<key, result>>)
        /\ UNCHANGED <<max_size, ttl, now>>
        /\ UNCHANGED <<memVars, stateVars, sideVars>>

CacheSet(tool_name, args, result) ==
    SetCall(tool_name, args, result) /\ UNCHANGED passed

\* the same call, its arguments and its time recorded when it stored the result
KeyedSet(tool_name, args, result) ==
    /\ SetCall(tool_name, args, result)
    /\ passed' = [set |-> IF cache_ret'.kind = "raised" THEN <<>>
                          ELSE <<tool_name, args, result, now>>,
                  get |-> <<>>]

\* ToolCache.clear
CacheClear ==
    /\ cache' = <<>>
    /\ cache_ret' = RetNone
    /\ Track("clear", <<>>, <<>>)
    /\ UNCHANGED <<max_size, ttl, now, passed>>
    /\ UNCHANGED <<memVars, stateVars, sideVars>>

\* ToolCache.remove: the dict it leaves
RemoveResult(key) ==
    IF key \in CacheKeys THEN RemoveAt(cache, CachePos(key)) ELSE cache

CacheRemove(tool_name, args) ==
    LET c == RemoveResult(GenerateKey(tool_name, args)) IN
    /\ cache' = c
    /\ cache_ret' = RetNone
    /\ Track("remove", c, <<>>)
    /\ UNCHANGED <<max_size, ttl, now, passed>>
    /\ UNCHANGED <<memVars, stateVars, sideVars>>

CacheNext ==
    \/ Tick
    \/ \E t \in ToolNames, a \in ArgInputs : CacheGet(t, a)
    \/ \E t \in ToolNames, a \in ArgInputs, r \in Results : CacheSet(t, a, r)
    \/ CacheClear
    \/ \E t \in ToolNames, a \in ArgInputs : CacheRemove(t, a)

\* The argument mappings of ArgInputs with their items in sorted order: one
\* input for each key
OverwriteArgInputs == {a \in ArgInputs : SortedArgs(a) = a}

\* set and remove on a cache without ttl, and the clock
OverwriteNext ==
    \/ Tick
    \/ \E t \in ToolNames, a \in OverwriteArgInputs, r \in Results : CacheSet(t, a, r)
    \/ \E t \in ToolNames, a \in OverwriteArgInputs : CacheRemove(t, a)

\* set and get of one tool's results with their arguments recorded, and the
\* clock
KeyNext ==
    \/ Tick
    \/ \E a \in ArgInputs, r \in Results : KeyedSet("f", a, r)
    \/ \E a \in ArgInputs : KeyedGet("f", a)

(***************************************************************************)
(* Memory and EnhancedMemory                                               *)
(*                                                                         *)
(* An entry is a dict. Its "content" is absent, a string (modelled as the  *)
(* sequence of its whitespace-separated tokens) or a value that is not a   *)
(* string (the number 42), on which .lower() raises AttributeError. uid is *)
(* the identity of the dict object; it is not part of the dict.            *)
(***************************************************************************)
ThreadIds == {"default", "B"}

\* EnhancedMemory.__init__: the default of max_history_length
DefaultMaxHistoryLength == 100

\* str.lower() on the tokens of the model's vocabulary
Lower(w) == IF w = "Cats" THEN "cats" ELSE w

NoContent == [kind |-> "absent", words |-> <<>>]
Str(ws) == [kind |-> "str", words |-> ws]
NotAString == [kind |-> "other", words |-> <<>>]

\* The entries a caller passes: content, type, and no timestamp
EntryInputs ==
    { [content |-> Str(<<"Cats", "cats">>), type |-> <<"reasoning">>, timestamp |-> <<>>],
      [content |-> Str(<<"cats", "dog">>), type |-> <<"tool_call">>, timestamp |-> <<>>],
      [content |-> NoContent, type |-> <<>>, timestamp |-> <<>>],
      [content |-> NotAString, type |-> <<>>, timestamp |-> <<>>] }

\* set(entry["content"].lower().split())
Words(content) == {Lower(content.words[i]) : i \in DOMAIN content.words}

\* the entry object the caller passes, with its identity
Obj(input) == [uid |-> next_uid, content |-> input.content, type |-> input.type,
               timestamp |-> input.timestamp]

\* A file: missing, not JSON, or a JSON object whose members "history",
\* "threads" and "current_thread" are each present (<<value>>) or not (<<>>)
NoFile == [state |-> "missing", history |-> <<>>, threads |-> <<>>,
           current_thread |-> <<>>]

\* no save_to_file has been made
NoSave == [history |-> <<>>, threads |-> <<>>, current_thread |-> "",
           indexed_content |-> <<>>]

Call(op, keep_last_n) == [op |-> op, keep |-> keep_last_n]

MemInit ==
    /\ history = <<>>
    /\ tool_calls = <<>>
    /\ reasoning_steps = <<>>
    /\ threads = <<>>
    /\ current_thread = "default"
    /\ indexed_content = <<>>
    /\ mem_ret = RetNone
    /\ mem_call = Call("none", <<>>)
    /\ next_uid = 1
    /\ appended = [t \in ThreadIds |-> <<>>]
    /\ posted = <<>>
    /\ disk = NoFile
    /\ caught = "none"
    /\ saved = NoSave
    /\ storage = <<>>

\* Memory.add_to_history: the entry as stored, stamped if it has no timestamp
Stamped(e) == IF e.timestamp = <<>> THEN [e EXCEPT !.timestamp = <<now>>] ELSE e

\* Mutant of HistoryAppend: the oldest entry makes room once the history holds
\* max_history_length entries.
HistoryAppendBounded(e) ==
    /\ history' = Append(IF Len(history) >= max_history_length
                         THEN Tail(history) ELSE history, Stamped(e))
    /\ IF e.type = <<"reasoning">>
       THEN /\ reasoning_steps' = Append(reasoning_steps, Stamped(e))
            /\ UNCHANGED tool_calls
       ELSE IF e.type = <<"tool_call">>
       THEN /\ tool_calls' = Append(tool_calls, Stamped(e))
            /\ UNCHANGED reasoning_steps
       ELSE UNCHANGED <<tool_calls, reasoning_steps>>

\* Mutant of HistoryAppend: every entry goes to both views.
HistoryAppendBothViews(e) ==
    /\ history' = Append(history, Stamped(e))
    /\ reasoning_steps' = Append(reasoning_steps, Stamped(e))
    /\ tool_calls' = Append(tool_calls, Stamped(e))

\* Memory.add_to_history: its effect on history and on the two classified views
HistoryAppend(e) ==
    /\ history' = Append(history, Stamped(e))
    /\ IF e.type = <<"reasoning">>
       THEN /\ reasoning_steps' = Append(reasoning_steps, Stamped(e))
            /\ UNCHANGED tool_calls
       ELSE IF e.type = <<"tool_call">>
       THEN /\ tool_calls' = Append(tool_calls, Stamped(e))
            /\ UNCHANGED reasoning_steps
       ELSE UNCHANGED <<tool_calls, reasoning_steps>>

\* Memory.add_to_history, called directly
AddToHistory(input) ==
    /\ next_uid <= MaxAppends
    /\ HistoryAppend(Obj(input))
    /\ next_uid' = next_uid + 1
    /\ mem_ret' = RetNone
    /\ mem_call' = Call("add_to_history", <<>>)
    /\ UNCHANGED <<threads, current_thread, indexed_content, appended, posted,
                   disk, caught, saved>>
    /\ UNCHANGED <<cacheVars, stateVars, sideVars>>

\* Mutant of ThreadsAfterAppend: every thread shares one index list.
ThreadsAfterAppendShared(th, thread_id, entry_index) ==
    LET th1 == IF thread_id \in DOMAIN th THEN th ELSE th @@ (thread_id :> <<>>)
    IN  [t \in DOMAIN th1 |-> Append(th1[t], entry_index)]

\* add_to_thread: self.threads after the index is recorded under thread_id
ThreadsAfterAppend(th, thread_id, entry_index) ==
    LET th1 == IF thread_id \in DOMAIN th THEN th ELSE th @@ (thread_id :> <<>>)
    IN  [th1 EXCEPT ![thread_id] = Append(@, entry_index)]

\* the index with entry_index appended to the posting list of every word in ws
IndexWords(ix, ws, entry_index) ==
    [w \in DOMAIN ix \cup ws |->
        IF w \in ws
        THEN Append(IF w \in DOMAIN ix THEN ix[w] ELSE <<>>, entry_index)
        ELSE ix[w]]

\* EnhancedMemory.add_to_thread. A content that is not a string makes
\* .lower() raise after the entry and its thread index have been recorded.
AddToThread(thread_id, input) ==
    LET e == Obj(input)
        entry_index == Len(history) + 1 - 1
    IN  /\ next_uid <= MaxAppends
        /\ HistoryAppend(e)
        /\ threads' = ThreadsAfterAppend(threads, thread_id, entry_index)
        /\ appended' = [appended EXCEPT ![thread_id] = Append(@, e.uid)]
        /\ IF e.content.kind = "str"
           THEN /\ indexed_content' =
                       IndexWords(indexed_content, Words(e.content), entry_index)
                /\ posted' = IndexWords(posted, Words(e.content), e.uid)
                /\ mem_ret' = RetNone
           ELSE /\ UNCHANGED <<indexed_content, posted>>
                /\ mem_ret' = IF e.content.kind = "other" THEN RetRaised ELSE RetNone
        /\ next_uid' = next_uid + 1
        /\ mem_call' = Call("add_to_thread", <<>>)
        /\ UNCHANGED <<current_thread, disk, caught, saved>>
        /\ UNCHANGED <<cacheVars, stateVars, sideVars>>

\* [i - to_remove for i in l if i >= to_remove]
RECURSIVE Rebased(_, _)
Rebased(l, to_remove) ==
    IF l = <<>> THEN <<>>
    ELSE IF Head(l) >= to_remove
         THEN <<Head(l) - to_remove>> \o Rebased(Tail(l), to_remove)
         ELSE Rebased(Tail(l), to_remove)

\* not keep_last_n
Falsy(keep_last_n) == keep_last_n = <<>> \/ keep_last_n[1] = 0

\* the Python slice l[start:] for start >= 0
SliceFrom(l, start) == SubSeq(l, start + 1, Len(l))

\* Mutant of PruneResult: the indices are filtered but not rebased.
PruneResultNoRebase(h, th, ix, keep_last_n) ==
    IF Falsy(keep_last_n) \/ Len(h) <= keep_last_n[1]
    THEN [history |-> h, threads |-> th, indexed_content |-> ix]
    ELSE LET to_remove == Len(h) - keep_last_n[1] IN
         [history |-> SliceFrom(h, to_remove),
          threads |-> [t \in DOMAIN th |-> SelectSeq(th[t], LAMBDA i : i >= to_remove)],
          indexed_content |->
              [w \in DOMAIN ix |-> SelectSeq(ix[w], LAMBDA i : i >= to_remove)]]

\* Mutant of PruneResult: every index is rebased, none is dropped, and an
\* index of a removed entry is clamped to 0.
PruneResultNoDrop(h, th, ix, keep_last_n) ==
    IF Falsy(keep_last_n) \/ Len(h) <= keep_last_n[1]
    THEN [history |-> h, threads |-> th, indexed_content |-> ix]
    ELSE LET to_remove == Len(h) - keep_last_n[1]
             shift(l) == [j \in DOMAIN l |->
                             IF l[j] >= to_remove THEN l[j] - to_remove ELSE 0]
         IN  [history |-> SliceFrom(h, to_remove),
              threads |-> [t \in DOMAIN th |-> shift(th[t])],
              indexed_content |-> [w \in DOMAIN ix |-> shift(ix[w])]]

\* Mutant of PruneResult: the posting lists are left as they were.
PruneResultThreadsOnly(h, th, ix, keep_last_n) ==
    IF Falsy(keep_last_n) \/ Len(h) <= keep_last_n[1]
    THEN [history |-> h, threads |-> th, indexed_content |-> ix]
    ELSE LET to_remove == Len(h) - keep_last_n[1] IN
         [history |-> SliceFrom(h, to_remove),
          threads |-> [t \in DOMAIN th |-> Rebased(th[t], to_remove)],
          indexed_content |-> ix]

\* Mutant of PruneResult: the test for a falsy keep_last_n is missing (None
\* counting as 0).
PruneResultNoFalsyTest(h, th, ix, keep_last_n) ==
    LET k == IF keep_last_n = <<>> THEN 0 ELSE keep_last_n[1] IN
    IF Len(h) <= k
    THEN [history |-> h, threads |-> th, indexed_content |-> ix]
    ELSE LET to_remove == Len(h) - k IN
         [history |-> SliceFrom(h, to_remove),
          threads |-> [t \in DOMAIN th |-> Rebased(th[t], to_remove)],
          indexed_content |-> [w \in DOMAIN ix |-> Rebased(ix[w], to_remove)]]

\* EnhancedMemory.prune_history on history h, threads th and index ix
PruneResult(h, th, ix, keep_last_n) ==
    IF Falsy(keep_last_n) \/ Len(h) <= keep_last_n[1]
    THEN [history |-> h, threads |-> th, indexed_content |-> ix]
    ELSE LET to_remove == Len(h) - keep_last_n[1] IN
         [history |-> SliceFrom(h, to_remove),
          threads |-> [t \in DOMAIN th |-> Rebased(th[t], to_remove)],
          indexed_content |-> [w \in DOMAIN ix |-> Rebased(ix[w], to_remove)]]

KeepInputs == {<<>>} \cup {<<k>> : k \in -1..MaxKeep}

PruneHistory(keep_last_n) ==
    LET r == PruneResult(history, threads, indexed_content, keep_last_n) IN
    /\ history' = r.history
    /\ threads' = r.threads
    /\ indexed_content' = r.indexed_content
    /\ mem_ret' = RetNone
    /\ mem_call' = Call("prune_history", keep_last_n)
    /\ UNCHANGED <<tool_calls, reasoning_steps, current_thread, next_uid,
                   appended, posted, disk, caught, saved>>
    /\ UNCHANGED <<cacheVars, stateVars, sideVars>>

\* the Python slice l[-n:] for n >= 0 (l[-0:] is l[0:], the whole list)
LastN(l, n) == IF n = 0 \/ n >= Len(l) THEN l ELSE SubSeq(l, Len(l) - n + 1, Len(l))

LastNInputs == {<<>>} \cup {<<n>> : n \in 0..MaxLastN}

\* EnhancedMemory.get_thread; an index outside history raises IndexError
GetThread(thread_id, last_n) ==
    IF thread_id \notin DOMAIN threads THEN RetValue(<<>>)
    ELSE LET all == threads[thread_id]
             indices == IF last_n = <<>> THEN all ELSE LastN(all, last_n[1])
         IN  IF \A j \in DOMAIN indices :
                    /\ -Len(history) <= indices[j]
                    /\ indices[j] < Len(history)
             THEN RetValue([j \in DOMAIN indices |->
                              IF indices[j] >= 0 THEN history[indices[j] + 1]
                              ELSE history[Len(history) + indices[j] + 1]])
             ELSE RetRaised

MemNext ==
    \/ \E e \in EntryInputs : AddToHistory(e)
    \/ \E t \in ThreadIds, e \in EntryInputs : AddToThread(t, e)
    \/ \E k \in KeepInputs : PruneHistory(k)

(***************************************************************************)
(* Persistence: save_to_file and load_from_file                            *)
(***************************************************************************)
\* json.dump followed by json.load of an entry: a new dict with the same items
JsonEntry(e) == [e EXCEPT !.uid = 0]

JsonEntries(h) == [i \in DOMAIN h |-> JsonEntry(h[i])]

\* EnhancedMemory.save_to_file
SaveToFile ==
    /\ disk' = [state |-> "json",
                history |-> <<JsonEntries(history)>>,
                threads |-> <<threads>>,
                current_thread |-> <<current_thread>>]
    /\ mem_ret' = RetNone
    /\ mem_call' = Call("save_to_file", <<>>)
    /\ saved' = [history |-> JsonEntries(history), threads |-> threads,
                 current_thread |-> current_thread,
                 indexed_content |-> indexed_content]
    /\ UNCHANGED <<history, tool_calls, reasoning_steps, threads, current_thread,
                   indexed_content, next_uid, appended, posted, caught>>
    /\ UNCHANGED <<cacheVars, stateVars, sideVars>>

\* What load_from_file can find at the path: the file as it was written, or
\* the file deleted, cut short (no longer JSON), or with one member missing
FilesFound ==
    { disk, NoFile, [NoFile EXCEPT !.state = "malformed"] }
        \cup (IF disk.state = "json"
              THEN { [disk EXCEPT !.history = <<>>],
                     [disk EXCEPT !.threads = <<>>],
                     [disk EXCEPT !.current_thread = <<>>] }
              ELSE {})

\* the loop of load_from_file over self.history from its i-th entry on, ix
\* being the index built so far: it stops where .lower() raises
RECURSIVE Reindexed(_, _, _)
Reindexed(h, i, ix) ==
    IF i > Len(h) THEN [indexed_content |-> ix, raised |-> FALSE]
    ELSE IF h[i].content.kind = "absent" THEN Reindexed(h, i + 1, ix)
    ELSE IF h[i].content.kind = "other" THEN [indexed_content |-> ix, raised |-> TRUE]
    ELSE Reindexed(h, i + 1, IndexWords(ix, Words(h[i].content), i - 1))

\* Mutant of LoadResult: self.threads is not assigned from the file.
LoadResultThreadsKept(f) ==
    LET old == [history |-> history, threads |-> threads,
                current_thread |-> current_thread,
                indexed_content |-> indexed_content]
    IN  IF f.state = "missing" THEN old @@ [caught |-> "FileNotFoundError"]
        ELSE IF f.state = "malformed" THEN old @@ [caught |-> "JSONDecodeError"]
        ELSE IF f.history = <<>> THEN old @@ [caught |-> "KeyError"]
        ELSE LET r == Reindexed(f.history[1], 1, <<>>) IN
             [history |-> f.history[1],
              threads |-> threads,
              current_thread |-> IF f.current_thread = <<>> THEN "default"
                                 ELSE f.current_thread[1],
              indexed_content |-> r.indexed_content,
              caught |-> IF r.raised THEN "AttributeError" ELSE "none"]

\* EnhancedMemory.load_from_file reading file f: the assignments it makes up
\* to the statement that raises, if one does, and the exception it catches
LoadResult(f) ==
    LET old == [history |-> history, threads |-> threads,
                current_thread |-> current_thread,
                indexed_content |-> indexed_content]
    IN  IF f.state = "missing" THEN [old EXCEPT !.caught = "FileNotFoundError"]
                                        @@ [caught |-> "FileNotFoundError"]
        ELSE IF f.state = "malformed" THEN old @@ [caught |-> "JSONDecodeError"]
        ELSE IF f.history = <<>> THEN old @@ [caught |-> "KeyError"]
        ELSE IF f.threads = <<>>
             THEN [old EXCEPT !.history = f.history[1]] @@ [caught |-> "KeyError"]
        ELSE LET r == Reindexed(f.history[1], 1, <<>>) IN
             [history |-> f.history[1],
              threads |-> f.threads[1],
              current_thread |-> IF f.current_thread = <<>> THEN "default"
                                 ELSE f.current_thread[1],
              indexed_content |-> r.indexed_content,
              caught |-> IF r.raised THEN "AttributeError" ELSE "none"]

\* EnhancedMemory.load_from_file: whatever happens, it returns None
LoadFromFile(f) ==
    LET r == LoadResult(f) IN
    /\ history' = r.history
    /\ threads' = r.threads
    /\ current_thread' = r.current_thread
    /\ indexed_content' = r.indexed_content
    /\ caught' = r.caught
    /\ mem_ret' = RetNone
    /\ mem_call' = Call("load_from_file", <<>>)
    /\ UNCHANGED <<tool_calls, reasoning_steps, next_uid, appended, posted, disk,
                   saved>>
    /\ UNCHANGED <<cacheVars, stateVars, sideVars>>

\* The memory's calls are taken with fewer inputs here than in MemNext: at
\* most MaxLoadAppends entries, each with a content, a thread's entries going
\* to "default" (the thread ConversationChain.add_message uses when it is
\* given none), and prune_history keeping one entry.
LoadEntryInputs == {e \in EntryInputs : e.content.kind # "absent"}

LoadNext ==
    \/ \E e \in LoadEntryInputs : next_uid <= MaxLoadAppends /\ AddToHistory(e)
    \/ \E e \in LoadEntryInputs :
          next_uid <= MaxLoadAppends /\ AddToThread("default", e)
    \/ PruneHistory(<<1>>)
    \/ SaveToFile
    \/ \E f \in FilesFound : LoadFromFile(f)

(***************************************************************************)
(* State (core.py): a tree of dicts addressed by dotted keys, a version    *)
(* counter and a change log.                                               *)
(*                                                                         *)
(* A key is the sequence key.split(".") of its parts. A value is an int, a *)
(* dict (a function from part names to values) or a list; a list is a      *)
(* mutable object, so a value names it by its identity, its position in    *)
(* `lists`, and every holder of that identity sees what is appended to it. *)
(***************************************************************************)
IntValue(v) == [kind |-> "int", v |-> v]
DictValue(items) == [kind |-> "dict", v |-> items]
ListValue(id) == [kind |-> "list", v |-> id]

KeyInputs == { <<"a">>, <<"a", "b">>, <<"b">> }
ValueInputs == {1, 2}

StateInit ==
    /\ data = <<>>
    /\ state_history = <<>>
    /\ version = 0
    /\ lists = <<>>
    /\ state_ret = RetNone

\* d[k] = v on the dict d
Put(d, k, v) == [x \in DOMAIN d \cup {k} |-> IF x = k THEN v ELSE d[x]]

\* State.set, lines 65-74: the dict d after the assignment along `parts`. A
\* missing part is created as an empty dict; a part that exists and is not a
\* dict makes `part not in current` or the item assignment raise TypeError,
\* and then nothing has been assigned.
RECURSIVE SetPath(_, _, _)
SetPath(d, parts, value) ==
    IF Len(parts) = 1 THEN [ok |-> TRUE, d |-> Put(d, parts[1], value)]
    ELSE LET part == Head(parts)
             child == IF part \in DOMAIN d THEN d[part] ELSE DictValue(<<>>)
         IN  IF child.kind # "dict" THEN [ok |-> FALSE, d |-> d]
             ELSE LET r == SetPath(child.v, Tail(parts), value) IN
                  IF r.ok THEN [ok |-> TRUE, d |-> Put(d, part, DictValue(r.d))]
                  ELSE [ok |-> FALSE, d |-> d]

\* Mutant of SetResultOfState: the version is incremented before the record
\* is written.
SetResultOfStateIncrementFirst(d, log, ver, key, value) ==
    LET r == SetPath(d, key, value) IN
    IF r.ok
    THEN [data |-> r.d,
          state_history |-> Append(log, [action |-> "set", key |-> key,
                                         value |-> value, timestamp |-> now,
                                         version |-> ver + 1]),
          version |-> ver + 1,
          ret |-> RetNone]
    ELSE [data |-> d, state_history |-> log, version |-> ver, ret |-> RetRaised]

\* State.set on data d, change log `log` and version ver
SetResultOfState(d, log, ver, key, value) ==
    LET r == SetPath(d, key, value) IN
    IF r.ok
    THEN [data |-> r.d,
          state_history |-> Append(log, [action |-> "set", key |-> key,
                                         value |-> value, timestamp |-> now,
                                         version |-> ver]),
          version |-> ver + 1,
          ret |-> RetNone]
    ELSE [data |-> d, state_history |-> log, version |-> ver, ret |-> RetRaised]

StateSet(key, v) ==
    LET r == SetResultOfState(data, state_history, version, key, IntValue(v)) IN
    /\ version < MaxVersion
    /\ data' = r.data
    /\ state_history' = r.state_history
    /\ version' = r.version
    /\ state_ret' = r.ret
    /\ UNCHANGED lists
    /\ UNCHANGED <<cacheVars, memVars, sideVars>>

\* State.get(key, default): <<value>>, or <<>> where it returns the default
RECURSIVE GetPath(_, _)
GetPath(d, parts) ==
    IF Head(parts) \notin DOMAIN d THEN <<>>
    ELSE IF Len(parts) = 1 THEN <<d[Head(parts)]>>
    ELSE IF d[Head(parts)].kind # "dict" THEN <<>>
    ELSE GetPath(d[Head(parts)].v, Tail(parts))

\* State.append_to: the list it passes to set is the stored list itself when
\* the key holds a list (current.append changes it in place), a new list
\* otherwise
StateAppendTo(key, v) ==
    LET found == GetPath(data, key)
        stored == found # <<>> /\ found[1].kind = "list"
        id == IF stored THEN found[1].v ELSE Len(lists) + 1
        before == IF stored THEN lists[id]
                  ELSE IF found = <<>> THEN <<>>
                  ELSE <<found[1]>>
        heap == IF stored THEN [lists EXCEPT ![id] = Append(before, IntValue(v))]
                ELSE Append(lists, Append(before, IntValue(v)))
        r == SetResultOfState(data, state_history, version, key, ListValue(id))
    IN  /\ version < MaxVersion
        /\ data' = r.data
        /\ state_history' = r.state_history
        /\ version' = r.version
        /\ state_ret' = r.ret
        /\ lists' = IF r.ret = RetRaised /\ ~stored THEN lists ELSE heap
        /\ UNCHANGED <<cacheVars, memVars, sideVars>>

StateNext ==
    \/ \E k \in KeyInputs, v \in ValueInputs : StateSet(k, v)
    \/ \E k \in KeyInputs, v \in ValueInputs : StateAppendTo(k, v)

(***************************************************************************)
(* Queries of the memory: calls that return a value and change nothing.    *)
(* mem_ret is what the call returned, mem_call the call with its arguments. *)
(***************************************************************************)
\* The appends and prunes that build the memory a query is made of, with at
\* most MaxQueryAppends entries over a run
QueryAppends ==
    \/ \E e \in EntryInputs : next_uid <= MaxQueryAppends /\ AddToHistory(e)
    \/ \E t \in ThreadIds, e \in EntryInputs :
          next_uid <= MaxQueryAppends /\ AddToThread(t, e)
    \/ \E k \in KeepInputs : PruneHistory(k)

\* what a query leaves alone: everything but mem_ret and mem_call
QueryFrame ==
    /\ UNCHANGED <<history, tool_calls, reasoning_steps, threads, current_thread,
                   indexed_content, next_uid, appended, posted, disk, caught,
                   saved>>
    /\ UNCHANGED <<cacheVars, stateVars, sideVars>>

\* EnhancedMemory.get_thread, called
GetThreadCall(thread_id, last_n) ==
    /\ mem_ret' = GetThread(thread_id, last_n)
    /\ mem_call' = Call("get_thread", <<thread_id, last_n>>)
    /\ QueryFrame

ThreadNext ==
    \/ QueryAppends
    \/ \E t \in ThreadIds \cup {"C"}, n \in LastNInputs : GetThreadCall(t, n)

\* The queries a caller passes, as the words query.split() gives
QueryInputs ==
    { <<"cat">>, <<"Cats">>, <<"cat", "dog">>, <<"cats", "dog">>, <<"bird">> }

TopKInputs == 0..MaxTopK

\* `word in content` for a word without whitespace and a lower-cased token of
\* the content: the substrings among the words of the model's vocabulary
IsSubstring(word, token) == word = token \/ (word = "cat" /\ token = "cats")

\* `word in content`, content being the lower-cased string of the entry, ""
\* when the entry has no content
Contains(content, word) ==
    /\ content.kind = "str"
    /\ \E i \in DOMAIN content.words : IsSubstring(word, Lower(content.words[i]))

\* query.lower().split()
QueryWords(query) == [i \in DOMAIN query |-> Lower(query[i])]

\* candidate_indices: the union of the posting lists of the query words
CandidateIndices(query_words) ==
    UNION {Range(indexed_content[w]) : w \in Range(query_words) \cap DOMAIN indexed_content}

\* the orders in which iterating over the set S can yield its elements
Orders(S) == {o \in [1..Cardinality(S) -> S] : Range(o) = S}

\* sum(1 for word in query_words if word in content)
Score(query_words, content) ==
    Cardinality({i \in DOMAIN query_words : Contains(content, query_words[i])})

\* list.sort(key=score, reverse=True) is stable: p goes behind every pair
\* already in the list whose score is not lower
RECURSIVE InsertByScore(_, _)
InsertByScore(p, l) ==
    IF l = <<>> THEN <<p>>
    ELSE IF Head(l)[2] >= p[2] THEN <<Head(l)>> \o InsertByScore(p, Tail(l))
    ELSE <<p>> \o l

RECURSIVE SortByScore(_)
SortByScore(l) ==
    IF l = <<>> THEN <<>>
    ELSE InsertByScore(l[Len(l)], SortByScore(SubSeq(l, 1, Len(l) - 1)))

\* the Python slice l[:k]
SliceTo(l, k) ==
    IF k >= 0 THEN SubSeq(l, 1, IF k <= Len(l) THEN k ELSE Len(l))
    ELSE SubSeq(l, 1, Len(l) + k)

\* Mutant of FindRelevant: the scores are not sorted.
FindRelevantUnsorted(query, top_k, order) ==
    LET query_words == QueryWords(query)
        inside == SelectSeq(order, LAMBDA idx : idx < Len(history))
        scores == [j \in DOMAIN inside |->
                      <<inside[j], Score(query_words, history[inside[j] + 1].content)>>]
        top == SelectSeq(SliceTo(scores, top_k), LAMBDA p : p[2] > 0)
    IN  RetValue([j \in DOMAIN top |-> history[top[j][1] + 1]])

\* EnhancedMemory.find_relevant, `order` being the order in which the set
\* candidate_indices is iterated. A candidate whose content is not a string
\* makes .lower() raise AttributeError.
FindRelevant(query, top_k, order) ==
    LET query_words == QueryWords(query)
        inside == SelectSeq(order, LAMBDA idx : idx < Len(history))
        scores == [j \in DOMAIN inside |->
                      <<inside[j], Score(query_words, history[inside[j] + 1].content)>>]
        top == SelectSeq(SliceTo(SortByScore(scores), top_k), LAMBDA p : p[2] > 0)
    IN  IF \E j \in DOMAIN inside : history[inside[j] + 1].content.kind = "other"
        THEN RetRaised
        ELSE RetValue([j \in DOMAIN top |-> history[top[j][1] + 1]])

FindRelevantCall(query, top_k) ==
    \E order \in Orders(CandidateIndices(QueryWords(query))) :
        /\ mem_ret' = FindRelevant(query, top_k, order)
        /\ mem_call' = Call("find_relevant", <<query, top_k>>)
        /\ QueryFrame

FindNext ==
    \/ QueryAppends
    \/ \E q \in QueryInputs, k \in TopKInputs : FindRelevantCall(q, k)

\* The entry_types a caller passes: None, the empty list, or a list of types
TypesInputs ==
    { <<>>, << <<>> >>, << <<"reasoning">> >>, << <<"reasoning", "tool_call">> >> }

\* entry.get("type") in entry_types
TypeIn(e, types) == e.type # <<>> /\ e.type[1] \in Range(types)

\* Memory.get_history: `if entry_types` is false for None and for an empty list
GetHistory(last_n, entry_types) ==
    LET filtered_history ==
            IF entry_types # <<>> /\ entry_types[1] # <<>>
            THEN SelectSeq(history, LAMBDA e : TypeIn(e, entry_types[1]))
            ELSE history
    IN  RetValue(IF last_n # <<>> THEN LastN(filtered_history, last_n[1])
                 ELSE filtered_history)

GetHistoryCall(last_n, entry_types) ==
    /\ mem_ret' = GetHistory(last_n, entry_types)
    /\ mem_call' = Call("get_history", <<last_n, entry_types>>)
    /\ QueryFrame

HistNext ==
    \/ QueryAppends
    \/ \E n \in LastNInputs, ts \in TypesInputs : GetHistoryCall(n, ts)

\* The summarizer_llm a caller passes: None, one whose generate returns a
\* summary, one whose generate raises an Exception
LlmInputs == {"None", "answers", "raises"}

\* What summarize_thread returns: which of its strings, and the number of
\* messages the string reports (0 when it reports none)
Summary(text, messages) == RetValue([text |-> text, messages |-> messages])

\* Mutant of SummarizeThread: the call of generate is not inside try/except.
SummarizeThreadNoTry(thread_id, summarizer_llm) ==
    LET thread == GetThread(thread_id, <<>>) IN
    IF thread.kind = "raised" THEN [ret |-> RetRaised, generated |-> FALSE]
    ELSE IF thread.val = <<>>
    THEN [ret |-> Summary("No messages in this thread.", 0), generated |-> FALSE]
    ELSE IF summarizer_llm = "None"
    THEN [ret |-> Summary("Thread with n messages", Len(thread.val)),
          generated |-> FALSE]
    ELSE IF summarizer_llm = "answers"
    THEN [ret |-> Summary("summary", 0), generated |-> TRUE]
    ELSE [ret |-> RetRaised, generated |-> TRUE]

\* EnhancedMemory.summarize_thread: what it returns and whether it called
\* summarizer_llm.generate
SummarizeThread(thread_id, summarizer_llm) ==
    LET thread == GetThread(thread_id, <<>>) IN
    IF thread.kind = "raised" THEN [ret |-> RetRaised, generated |-> FALSE]
    ELSE IF thread.val = <<>>
    THEN [ret |-> Summary("No messages in this thread.", 0), generated |-> FALSE]
    ELSE IF summarizer_llm = "None"
    THEN [ret |-> Summary("Thread with n messages", Len(thread.val)),
          generated |-> FALSE]
    ELSE IF summarizer_llm = "answers"
    THEN [ret |-> Summary("summary", 0), generated |-> TRUE]
    ELSE [ret |-> Summary("Error generating summary: e. Thread has n messages.",
                          Len(thread.val)),
          generated |-> TRUE]

\* summarize_thread, called; mem_call also records whether generate was called
SummarizeThreadCall(thread_id, summarizer_llm) ==
    LET r == SummarizeThread(thread_id, summarizer_llm) IN
    /\ mem_ret' = r.ret
    /\ mem_call' = Call("summarize_thread", <<thread_id, summarizer_llm, r.generated>>)
    /\ QueryFrame

SummaryNext ==
    \/ QueryAppends
    \/ \E t \in ThreadIds \cup {"C"}, llm \in LlmInputs : SummarizeThreadCall(t, llm)

(***************************************************************************)
(* add_to_thread and prune_history as two activities of one memory, each   *)
(* taken one statement at a time; nothing in memory.py synchronises them.  *)
(* `adder` and `pruner` hold the statement each activity is at and its     *)
(* local variables. A `for` over a dict visits the keys the dict has when  *)
(* the loop starts, one key a step, in an order the model leaves open, and *)
(* raises RuntimeError at its next step when the dict has changed size.    *)
(***************************************************************************)
AdderIdle == [pc |-> "idle", thread_id |-> "", entry |-> <<>>, entry_index |-> 0,
              words |-> {}]

PrunerIdle == [pc |-> "idle", keep_last_n |-> <<>>, to_remove |-> 0, todo |-> {},
               size |-> 0]

RaceInit == adder = AdderIdle /\ pruner = PrunerIdle /\ preempted = FALSE

\* a step taken while the other activity is inside its call
Interrupts(other) == preempted' = (preempted \/ other.pc # "idle")

\* add_to_thread is called: the thread's list is created if it is missing
AddEnter(thread_id, input) ==
    /\ adder.pc = "idle"
    /\ next_uid <= MaxRaceAppends
    /\ threads' = IF thread_id \in DOMAIN threads THEN threads
                  ELSE threads @@ (thread_id :> <<>>)
    /\ adder' = [AdderIdle EXCEPT !.pc = "add_to_history", !.thread_id = thread_id,
                                  !.entry = <<Obj(input)>>]
    /\ next_uid' = next_uid + 1
    /\ mem_call' = Call("add_to_thread", <<>>)
    /\ Interrupts(pruner)
    /\ UNCHANGED <<history, tool_calls, reasoning_steps, current_thread,
                   indexed_content, mem_ret, appended, posted, disk, caught, saved>>
    /\ UNCHANGED <<cacheVars, stateVars, storage, max_history_length, pruner>>

\* self.add_to_history(entry)
AddHistory ==
    /\ adder.pc = "add_to_history"
    /\ HistoryAppend(adder.entry[1])
    /\ adder' = [adder EXCEPT !.pc = "entry_index"]
    /\ Interrupts(pruner)
    /\ UNCHANGED <<threads, current_thread, indexed_content, mem_ret, mem_call,
                   next_uid, appended, posted, disk, caught, saved>>
    /\ UNCHANGED <<cacheVars, stateVars, storage, max_history_length, pruner>>

\* Mutant of AddEntryIndex: the index is len(self.history).
AddEntryIndexPastEnd ==
    /\ adder.pc = "entry_index"
    /\ adder' = [adder EXCEPT !.pc = "append", !.entry_index = Len(history)]
    /\ Interrupts(pruner)
    /\ UNCHANGED <<memVars, cacheVars, stateVars, storage, max_history_length,
                   pruner>>

\* entry_index = len(self.history) - 1
AddEntryIndex ==
    /\ adder.pc = "entry_index"
    /\ adder' = [adder EXCEPT !.pc = "append", !.entry_index = Len(history) - 1]
    /\ Interrupts(pruner)
    /\ UNCHANGED <<memVars, cacheVars, stateVars, storage, max_history_length,
                   pruner>>

\* self.threads[thread_id].append(entry_index), and the words of the content
AddAppend ==
    LET e == adder.entry[1] IN
    /\ adder.pc = "append"
    /\ threads' = ThreadsAfterAppend(threads, adder.thread_id, adder.entry_index)
    /\ appended' = [appended EXCEPT ![adder.thread_id] = Append(@, e.uid)]
    /\ IF e.content.kind = "str"
       THEN /\ adder' = [adder EXCEPT !.pc = "words", !.words = Words(e.content)]
            /\ UNCHANGED mem_ret
       ELSE /\ adder' = AdderIdle
            /\ mem_ret' = IF e.content.kind = "other" THEN RetRaised ELSE RetNone
    /\ Interrupts(pruner)
    /\ UNCHANGED <<history, tool_calls, reasoning_steps, current_thread,
                   indexed_content, mem_call, next_uid, posted, disk, caught,
                   saved>>
    /\ UNCHANGED <<cacheVars, stateVars, storage, max_history_length, pruner>>

\* one round of `for word in words`
AddWord(word) ==
    LET rest == adder.words \ {word} IN
    /\ adder.pc = "words"
    /\ word \in adder.words
    /\ indexed_content' = IndexWords(indexed_content, {word}, adder.entry_index)
    /\ posted' = IndexWords(posted, {word}, adder.entry[1].uid)
    /\ IF rest = {}
       THEN adder' = AdderIdle /\ mem_ret' = RetNone
       ELSE adder' = [adder EXCEPT !.words = rest] /\ UNCHANGED mem_ret
    /\ Interrupts(pruner)
    /\ UNCHANGED <<history, tool_calls, reasoning_steps, threads, current_thread,
                   mem_call, next_uid, appended, disk, caught, saved>>
    /\ UNCHANGED <<cacheVars, stateVars, storage, max_history_length, pruner>>

\* what no statement of prune_history writes
PruneStepFrame ==
    /\ UNCHANGED <<tool_calls, reasoning_steps, current_thread, next_uid, appended,
                   posted, disk, caught, saved>>
    /\ UNCHANGED <<cacheVars, stateVars, storage, max_history_length, adder>>

\* prune_history is called: the test that makes it return at once
PruneEnter(keep_last_n) ==
    /\ pruner.pc = "idle"
    /\ IF Falsy(keep_last_n) \/ Len(history) <= keep_last_n[1]
       THEN pruner' = PrunerIdle /\ mem_ret' = RetNone
       ELSE /\ pruner' = [PrunerIdle EXCEPT !.pc = "to_remove",
                                            !.keep_last_n = keep_last_n]
            /\ UNCHANGED mem_ret
    /\ mem_call' = Call("prune_history", keep_last_n)
    /\ Interrupts(adder)
    /\ UNCHANGED <<history, threads, indexed_content>>
    /\ PruneStepFrame

\* to_remove = len(self.history) - keep_last_n
PruneCount ==
    /\ pruner.pc = "to_remove"
    /\ pruner' = [pruner EXCEPT !.pc = "slice",
                                !.to_remove = Len(history) - pruner.keep_last_n[1]]
    /\ Interrupts(adder)
    /\ UNCHANGED <<history, threads, indexed_content, mem_ret, mem_call>>
    /\ PruneStepFrame

\* self.history = self.history[to_remove:]
PruneSlice ==
    /\ pruner.pc = "slice"
    /\ history' = SliceFrom(history, pruner.to_remove)
    /\ pruner' = [pruner EXCEPT !.pc = "for_threads"]
    /\ Interrupts(adder)
    /\ UNCHANGED <<threads, indexed_content, mem_ret, mem_call>>
    /\ PruneStepFrame

\* `for thread_id in self.threads` starts
PruneIterThreads ==
    /\ pruner.pc = "for_threads"
    /\ pruner' = [pruner EXCEPT !.pc = "threads", !.todo = DOMAIN threads,
                                !.size = Cardinality(DOMAIN threads)]
    /\ Interrupts(adder)
    /\ UNCHANGED <<history, threads, indexed_content, mem_ret, mem_call>>
    /\ PruneStepFrame

\* one round of the loop over self.threads, or its end
PruneThread ==
    /\ pruner.pc = "threads"
    /\ IF Cardinality(DOMAIN threads) # pruner.size
       THEN /\ pruner' = PrunerIdle
            /\ mem_ret' = RetRaised
            /\ UNCHANGED threads
       ELSE IF pruner.todo = {}
       THEN /\ pruner' = [pruner EXCEPT !.pc = "for_words"]
            /\ UNCHANGED <<threads, mem_ret>>
       ELSE \E thread_id \in pruner.todo :
               /\ threads' = [threads EXCEPT
                                 ![thread_id] = Rebased(@, pruner.to_remove)]
               /\ pruner' = [pruner EXCEPT !.todo = @ \ {thread_id}]
               /\ UNCHANGED mem_ret
    /\ Interrupts(adder)
    /\ UNCHANGED <<history, indexed_content, mem_call>>
    /\ PruneStepFrame

\* `for word in self.indexed_content` starts
PruneIterWords ==
    /\ pruner.pc = "for_words"
    /\ pruner' = [pruner EXCEPT !.pc = "words", !.todo = DOMAIN indexed_content,
                                !.size = Cardinality(DOMAIN indexed_content)]
    /\ Interrupts(adder)
    /\ UNCHANGED <<history, threads, indexed_content, mem_ret, mem_call>>
    /\ PruneStepFrame

\* one round of the loop over self.indexed_content, or its end
PruneWord ==
    /\ pruner.pc = "words"
    /\ IF Cardinality(DOMAIN indexed_content) # pruner.size
       THEN /\ pruner' = PrunerIdle
            /\ mem_ret' = RetRaised
            /\ UNCHANGED indexed_content
       ELSE IF pruner.todo = {}
       THEN /\ pruner' = PrunerIdle
            /\ mem_ret' = RetNone
            /\ UNCHANGED indexed_content
       ELSE \E word \in pruner.todo :
               /\ indexed_content' = [indexed_content EXCEPT
                                         ![word] = Rebased(@, pruner.to_remove)]
               /\ pruner' = [pruner EXCEPT !.todo = @ \ {word}]
               /\ UNCHANGED mem_ret
    /\ Interrupts(adder)
    /\ UNCHANGED <<history, threads, mem_call>>
    /\ PruneStepFrame

\* The calls are taken with fewer inputs here than in MemNext: the entry is
\* the one whose content has two words, keep_last_n is None or positive.
RaceEntryInputs == {e \in EntryInputs : e.type = <<"tool_call">>}

RaceKeepInputs == {<<>>} \cup {<<k>> : k \in 1..MaxRaceKeep}

RaceNext ==
    \/ \E t \in ThreadIds, e \in RaceEntryInputs : AddEnter(t, e)
    \/ AddHistory
    \/ AddEntryIndex
    \/ AddAppend
    \/ \E w \in adder.words : AddWord(w)
    \/ \E k \in RaceKeepInputs : PruneEnter(k)
    \/ PruneCount
    \/ PruneSlice
    \/ PruneIterThreads
    \/ PruneThread
    \/ PruneIterWords
    \/ PruneWord

(***************************************************************************)
(* Memory's key/value storage, and the memory with its classified views.   *)
(***************************************************************************)
StorageKeys == {"k"}
StorageValues == {"v"}

\* Memory.set
MemorySet(key, value) ==
    /\ storage' = [k \in DOMAIN storage \cup {key} |->
                      IF k = key THEN value ELSE storage[k]]
    /\ mem_ret' = RetNone
    /\ mem_call' = Call("set", <<key, value>>)
    /\ UNCHANGED <<history, tool_calls, reasoning_steps, threads, current_thread,
                   indexed_content, next_uid, appended, posted, disk, caught,
                   saved>>
    /\ UNCHANGED <<cacheVars, stateVars, max_history_length, adder, pruner,
                   preempted>>

\* Memory.get with the default left at None
MemoryGet(key) ==
    /\ mem_ret' = IF key \in DOMAIN storage THEN RetValue(storage[key]) ELSE RetNone
    /\ mem_call' = Call("get", <<key>>)
    /\ QueryFrame

\* an entry of each kind add_to_history tells apart: "reasoning", "tool_call"
\* and no type
ViewEntryInputs == {e \in EntryInputs : e.content.kind # "other"}

\* Every call that writes the memory, with at most MaxViewAppends entries
\* appended over a run, a thread's entries going to "default", prune_history
\* keeping one entry and load_from_file finding the file as it was written or
\* no file
ViewsNext ==
    \/ \E e \in ViewEntryInputs : next_uid <= MaxViewAppends /\ AddToHistory(e)
    \/ \E e \in ViewEntryInputs :
          next_uid <= MaxViewAppends /\ AddToThread("default", e)
    \/ PruneHistory(<<1>>)
    \/ SaveToFile
    \/ \E f \in {disk, NoFile} : LoadFromFile(f)
    \/ \E k \in StorageKeys, v \in StorageValues : MemorySet(k, v)
    \/ \E k \in StorageKeys : MemoryGet(k)

(***************************************************************************)
(* The memory under every call it offers, for each configured              *)
(* max_history_length.                                                     *)
(***************************************************************************)
\* The values max_history_length is configured with: 1 and the default
HistoryLengthInputs == {1, DefaultMaxHistoryLength}

\* an entry with a content and a type, and one with neither
GrowEntryInputs ==
    {e \in EntryInputs : e.type = <<"tool_call">> \/ e.content.kind = "absent"}

\* Every call of the memory, with at most MaxGrowAppends entries appended
\* over a run; the calls are taken with fewer inputs than in the
\* specifications of their own.
GrowNext ==
    \/ \E e \in GrowEntryInputs : next_uid <= MaxGrowAppends /\ AddToHistory(e)
    \/ \E e \in GrowEntryInputs :
          next_uid <= MaxGrowAppends /\ AddToThread("default", e)
    \/ PruneHistory(<<1>>)
    \/ SaveToFile
    \/ \E f \in {disk, NoFile} : LoadFromFile(f)
    \/ GetThreadCall("default", <<>>)
    \/ GetHistoryCall(<<>>, <<>>)
    \/ FindRelevantCall(<<"cats", "dog">>, 1)
    \/ SummarizeThreadCall("default", "None")
    \/ \E k \in StorageKeys, v \in StorageValues : MemorySet(k, v)
    \/ \E k \in StorageKeys : MemoryGet(k)

\* the objects as constructed, no call being under way
Init ==
    /\ CacheInit /\ MemInit /\ StateInit /\ RaceInit
    /\ max_history_length = DefaultMaxHistoryLength

\* the cache alone
SpecCache == Init /\ [][CacheNext]_vars

\* the cache's set and get, with the arguments they were passed
SpecKey == Init /\ [][KeyNext]_vars

\* a cache whose entries do not expire
InitOverwrite == Init /\ ttl = <<>>

\* the cache's set and remove over the clock, without ttl
SpecOverwrite == InitOverwrite /\ [][OverwriteNext]_vars

\* the memory alone, beside a cache that is not used
InitMem == Init /\ max_size = 0 /\ ttl = <<>>

SpecMem == InitMem /\ [][MemNext]_vars

\* the memory with its persistence
SpecLoad == InitMem /\ [][LoadNext]_vars

\* the memory with get_thread
SpecThread == InitMem /\ [][ThreadNext]_vars

\* the memory with find_relevant
SpecFind == InitMem /\ [][FindNext]_vars

\* the memory with get_history
SpecHist == InitMem /\ [][HistNext]_vars

\* the memory with summarize_thread
SpecSummary == InitMem /\ [][SummaryNext]_vars

\* the State object alone, beside a memory and a cache that are not used
SpecState == InitMem /\ [][StateNext]_vars

\* add_to_thread and prune_history interleaved statement by statement
SpecRace == InitMem /\ [][RaceNext]_vars

\* the memory with its storage, its classified views and its persistence
SpecViews == InitMem /\ [][ViewsNext]_vars

\* the memory as EnhancedMemory(max_history_length) constructs it
InitGrow ==
    /\ CacheInit /\ MemInit /\ StateInit /\ RaceInit
    /\ max_size = 0 /\ ttl = <<>>
    /\ max_history_length \in HistoryLengthInputs

\* the memory under every call, for each configured max_history_length
SpecGrow == InitGrow /\ [][GrowNext]_vars

(***************************************************************************)
(* Claims about ToolCache, checked under SpecCache.                        *)
(***************************************************************************)

\* C1: whenever set is called with a key that is not in the cache while the
\* cache holds max_size entries, exactly one entry leaves the cache, and it is
\* the one inserted earliest among the entries present (reads by get do not
\* matter); the new key is stored, so the cache again holds max_size keys.
C1_SetEvictsEarliestInserted ==
    [][\A t \in ToolNames, a \in ArgInputs, r \in Results :
         LET key == GenerateKey(t, a) IN
         (key \notin CacheKeys /\ Len(cache) = max_size /\ CacheSet(t, a, r))
         => /\ ins_order # <<>>
            /\ last_drop' = [op |-> "set", keys |-> {Head(ins_order)}]
            /\ CacheKeys' = (CacheKeys \ {Head(ins_order)}) \cup {key}
            /\ Len(cache') = max_size]_vars

\* The same statement for a cache that holds at least one entry (which is
\* every full cache when max_size >= 1): there the eviction is first-in,
\* first-out by insertion.
FifoEvictionOfNonEmptyCache ==
    [][\A t \in ToolNames, a \in ArgInputs, r \in Results :
         LET key == GenerateKey(t, a) IN
         (key \notin CacheKeys /\ Len(cache) = max_size /\ cache # <<>>
            /\ CacheSet(t, a, r))
         => /\ last_drop' = [op |-> "set", keys |-> {Head(ins_order)}]
            /\ CacheKeys' = (CacheKeys \ {Head(ins_order)}) \cup {key}
            /\ Len(cache') = max_size]_vars

\* C2: with max_size >= 1 the cache never holds more than max_size entries.
C2_SizeBounded == max_size >= 1 => Len(cache) <= max_size

\* a full cache right after a set that had to make room
C2_Witness == max_size >= 1 /\ Len(cache) = max_size /\ last_drop.op = "set"

\* C3: a get of a key whose latest set was at time t0 returns the stored result
\* and leaves the cache as it is when ttl is unset or now - t0 <= ttl, and
\* returns None and deletes the entry when now - t0 > ttl.
C3_TtlExpiryOnRead ==
    [][\A t \in ToolNames, a \in ArgInputs :
         LET key == GenerateKey(t, a) IN
         (key \in DOMAIN last_set /\ CacheGet(t, a))
         => IF ttl # <<>> /\ now - last_set[key].at > ttl[1]
            THEN /\ cache_ret' = RetNone
                 /\ CacheKeys' = CacheKeys \ {key}
            ELSE /\ cache_ret' = RetValue(last_set[key].result)
                 /\ cache' = cache]_vars

\* a get has just deleted an expired entry
C3_Witness == ttl # <<>> /\ last_drop.op = "get"

(***************************************************************************)
(* Claims about EnhancedMemory's indices, checked under SpecMem.           *)
(***************************************************************************)

\* every index list the memory holds: the thread lists and the posting lists
IndexLists ==
    {threads[t] : t \in DOMAIN threads}
        \cup {indexed_content[w] : w \in DOMAIN indexed_content}

InRange(l) == \A j \in DOMAIN l : 0 <= l[j] /\ l[j] < Len(history)

\* some entries have been pruned away
Pruned == Len(history) < next_uid - 1

\* C4: every index in a thread list or a posting list is a valid index of the
\* current history: 0 <= i < len(history).
C4_IndexValidity == \A l \in IndexLists : InRange(l)

\* after an effective prune, a thread list and a posting list still hold indices
C4_Witness ==
    /\ Pruned
    /\ mem_call.op = "prune_history"
    /\ \E t \in DOMAIN threads : threads[t] # <<>>
    /\ \E w \in DOMAIN indexed_content : indexed_content[w] # <<>>

\* a is b with some elements left out
RECURSIVE IsSubseq(_, _)
IsSubseq(a, b) ==
    IF a = <<>> THEN TRUE
    ELSE IF b = <<>> THEN FALSE
    ELSE IF Head(a) = Head(b) THEN IsSubseq(Tail(a), Tail(b))
    ELSE IsSubseq(a, Tail(b))

\* the identities of the entries the indices of l resolve to
Referents(l) == [j \in DOMAIN l |-> history[l[j] + 1].uid]

\* C5: every stored index resolves to the entry it was recorded for: the
\* entries a thread list resolves to are entries that were appended to that
\* thread, the entries a posting list of word w resolves to were indexed under
\* w and have w among their lower-cased tokens, and both in the order in which
\* they were recorded.
C5_ReferentPreserved ==
    /\ \A t \in DOMAIN threads :
          /\ InRange(threads[t])
          /\ IsSubseq(Referents(threads[t]), appended[t])
    /\ \A w \in DOMAIN indexed_content :
          /\ InRange(indexed_content[w])
          /\ IsSubseq(Referents(indexed_content[w]), posted[w])
          /\ \A j \in DOMAIN indexed_content[w] :
                LET e == history[indexed_content[w][j] + 1] IN
                e.content.kind = "str" /\ w \in Words(e.content)

\* after a prune, a thread index and a posting index have been rebased: each
\* resolves to an entry that was appended at a later position than the index
C5_Witness ==
    /\ mem_call.op = "prune_history"
    /\ \E t \in DOMAIN threads : \E j \in DOMAIN threads[t] :
          history[threads[t][j] + 1].uid > threads[t][j] + 1
    /\ \E w \in DOMAIN indexed_content : \E j \in DOMAIN indexed_content[w] :
          history[indexed_content[w][j] + 1].uid > indexed_content[w][j] + 1

\* l with the indices below `removed` dropped and the others lowered by it
Shifted(l, removed) ==
    LET kept == SelectSeq(l, LAMBDA i : ~(i < removed))
    IN  [j \in DOMAIN kept |-> kept[j] - removed]

\* C8: prune_history(k) with k >= 1 and len(history) > k leaves the last k
\* entries of the history in their order, and turns every thread list and
\* posting list into the old list with the indices < removed dropped and the
\* others decreased by removed, where removed = len(history) - k.
C8_PrunePostcondition ==
    [][\A k \in 1..MaxKeep :
         (PruneHistory(<<k>>) /\ Len(history) > k)
         => LET removed == Len(history) - k IN
            /\ Len(history') = k
            /\ \A j \in 1..k : history'[j] = history[removed + j]
            /\ DOMAIN threads' = DOMAIN threads
            /\ \A t \in DOMAIN threads : threads'[t] = Shifted(threads[t], removed)
            /\ DOMAIN indexed_content' = DOMAIN indexed_content
            /\ \A w \in DOMAIN indexed_content :
                  indexed_content'[w] = Shifted(indexed_content[w], removed)]_vars

\* right after prune_history(k), k >= 1, that removed entries, dropped an index
\* from a list and rebased another
C8_Witness ==
    /\ mem_call.op = "prune_history"
    /\ mem_call.keep # <<>>
    /\ mem_call.keep[1] >= 1
    /\ Len(history) = mem_call.keep[1]
    /\ history[1].uid > 1
    /\ \E t \in DOMAIN threads :
          /\ threads[t] # <<>>
          /\ Len(threads[t]) < Len(appended[t])

\* C9: prune_history(k) changes neither the history nor any thread list or
\* posting list when k is None or 0 or when len(history) <= k; and a
\* prune_history(k) that directly follows a prune_history(k) changes none of
\* them either.
C9_PruneNoOpAndIdempotent ==
    [][\A k \in KeepInputs :
         PruneHistory(k)
         => /\ (k = <<>> \/ k[1] = 0 \/ Len(history) <= k[1])
                 => UNCHANGED <<history, threads, indexed_content>>
            /\ mem_call = Call("prune_history", k)
                 => UNCHANGED <<history, threads, indexed_content>>]_vars

\* right after a prune_history(None) or prune_history(0) of a history that
\* holds entries and indices
C9_Witness ==
    /\ mem_call.op = "prune_history"
    /\ Falsy(mem_call.keep)
    /\ Len(history) >= 2
    /\ \E t \in DOMAIN threads : threads[t] # <<>>
    /\ \E w \in DOMAIN indexed_content : indexed_content[w] # <<>>

\* the uids appended to thread B so far (none for an id that was never used)
AppendedTo(B) == IF B \in DOMAIN appended THEN Range(appended[B]) ELSE {}

\* C10: get_thread(B, last_n) returns only entries that were appended with
\* thread id B, and the empty list for a thread id that was never used.
C10_ThreadIsolation ==
    \A B \in ThreadIds \cup {"C"}, n \in LastNInputs :
        LET r == GetThread(B, n) IN
        /\ r.kind = "value"
        /\ \A j \in DOMAIN r.val : r.val[j].uid \in AppendedTo(B)
        /\ AppendedTo(B) = {} => r.val = <<>>

\* after a prune both threads still hold entries, and more entries were
\* appended to "default" than to "B"
C10_Witness ==
    /\ Pruned
    /\ GetThread("B", <<>>).val # <<>>
    /\ GetThread("default", <<>>).val # <<>>
    /\ Len(appended["default"]) > Len(appended["B"])

(***************************************************************************)
(* Claims about load_from_file, checked under SpecLoad.                    *)
(***************************************************************************)

\* C6: a load_from_file that fails (it catches an exception) leaves history,
\* threads, current_thread and the keyword index exactly as they were. The
\* histories are compared as Python compares lists of dicts, by their items.
C6_FailedLoadChangesNothing ==
    [][\A f \in FilesFound :
         (LoadFromFile(f) /\ caught' # "none")
         => /\ JsonEntries(history') = JsonEntries(history)
            /\ UNCHANGED <<threads, current_thread, indexed_content>>]_vars

\* C7: when the file cannot be read or a required member is missing, the
\* call ends with an error its caller sees.
C7_FailedLoadIsReported ==
    (mem_call.op = "load_from_file"
        /\ caught \in {"FileNotFoundError", "JSONDecodeError", "KeyError"})
    => mem_ret = RetRaised

(***************************************************************************)
(* Claims about the memory's queries.                                      *)
(***************************************************************************)

\* the entries of thread t, resolved through the thread's index list
ThreadEntries(t) ==
    IF t \in DOMAIN threads
    THEN [j \in DOMAIN threads[t] |-> history[threads[t][j] + 1]]
    ELSE <<>>

Min(a, b) == IF a <= b THEN a ELSE b

\* the last k elements of l, in their order, for 0 <= k <= Len(l)
Last(l, k) == SubSeq(l, Len(l) - k + 1, Len(l))

\* C11: get_thread(thread_id, last_n) returns the last min(last_n, length of
\* the thread) entries of the thread in their order for every last_n >= 0 (so
\* none for last_n = 0), and the whole thread when last_n is None.
C11_GetThreadLastN ==
    mem_call.op = "get_thread"
    => LET t == mem_call.keep[1]
           last_n == mem_call.keep[2]
           all == ThreadEntries(t)
       IN  mem_ret = RetValue(IF last_n = <<>> THEN all
                              ELSE Last(all, Min(last_n[1], Len(all))))

\* The same statement for last_n >= 1 and last_n None, where the slice
\* indices[-last_n:] is the last last_n indices.
GetThreadLastNPositive ==
    (mem_call.op = "get_thread" /\ mem_call.keep[2] # <<0>>)
    => LET t == mem_call.keep[1]
           last_n == mem_call.keep[2]
           all == ThreadEntries(t)
       IN  mem_ret = RetValue(IF last_n = <<>> THEN all
                              ELSE Last(all, Min(last_n[1], Len(all))))

(***************************************************************************)
(* Claims about the save/load round trip, checked under SpecLoad.          *)
(***************************************************************************)

\* C12: load_from_file of the file the last save_to_file wrote, whatever was
\* appended or pruned in between, yields a history equal to the saved one
\* (same entries by their items, same order), a threads mapping equal to the
\* saved one and the saved current_thread.
C12_RoundTripHistoryThreads ==
    [][(disk.state = "json" /\ LoadFromFile(disk))
         => /\ JsonEntries(history') = saved.history
            /\ threads' = saved.threads
            /\ current_thread' = saved.current_thread]_vars

\* right after a load that brought back a saved history and thread list, the
\* thread having been appended to after the save
C12_Witness ==
    /\ mem_call.op = "load_from_file"
    /\ caught = "none"
    /\ history # <<>>
    /\ history = saved.history
    /\ "default" \in DOMAIN threads
    /\ threads["default"] # <<>>
    /\ threads = saved.threads
    /\ next_uid - 1 > Len(history)

\* the lower-cased tokens of the string contents of the entries of h
TokensOf(h) ==
    UNION {Words(h[i].content) : i \in {j \in DOMAIN h : h[j].content.kind = "str"}}

\* C13: after save_to_file and load_from_file of that file the rebuilt keyword
\* index holds, for every word that is a token of an entry of the reloaded
\* history, the posting list the index held for it before the save.
C13_RoundTripIndex ==
    [][(disk.state = "json" /\ LoadFromFile(disk))
         => \A w \in TokensOf(history') :
               /\ w \in DOMAIN indexed_content'
               /\ w \in DOMAIN saved.indexed_content
               /\ indexed_content'[w] = saved.indexed_content[w]]_vars


\* the history positions (0-based) of the entries appended via add_to_thread
ThreadedPositions ==
    {i \in 0..(Len(history) - 1) :
        \E t \in DOMAIN appended : history[i + 1].uid \in Range(appended[t])}

\* C14: when the query is a single word that is contained in the lower-cased
\* content of exactly one entry appended via add_to_thread, find_relevant with
\* top_k >= 1 returns exactly that entry; when no word of the query is a key of
\* the keyword index, it returns the empty list.
C14_RelevanceMonotonicity ==
    mem_call.op = "find_relevant"
    => LET query_words == QueryWords(mem_call.keep[1])
           top_k == mem_call.keep[2]
           holders == {i \in ThreadedPositions :
                          Contains(history[i + 1].content, query_words[1])}
       IN  /\ (Len(query_words) = 1 /\ top_k >= 1 /\ Cardinality(holders) = 1)
                 => \E i \in holders : mem_ret = RetValue(<<history[i + 1]>>)
           /\ Range(query_words) \cap DOMAIN indexed_content = {}
                 => mem_ret = RetValue(<<>>)

\* The same statement for a query word that is one of the whitespace-separated
\* tokens of the lower-cased content of exactly one entry appended via
\* add_to_thread.
RelevanceOfSingleToken ==
    mem_call.op = "find_relevant"
    => LET query_words == QueryWords(mem_call.keep[1])
           top_k == mem_call.keep[2]
           holders == {i \in ThreadedPositions :
                          /\ history[i + 1].content.kind = "str"
                          /\ query_words[1] \in Words(history[i + 1].content)}
       IN  /\ (Len(query_words) = 1 /\ top_k >= 1 /\ Cardinality(holders) = 1)
                 => \E i \in holders : mem_ret = RetValue(<<history[i + 1]>>)
           /\ Range(query_words) \cap DOMAIN indexed_content = {}
                 => mem_ret = RetValue(<<>>)


\* the history position (0-based) of the entry e; the entries of a history
\* built by appends are distinct objects
PositionOf(e) == CHOOSE i \in 0..(Len(history) - 1) : history[i + 1].uid = e.uid

\* C15: find_relevant(query, top_k) with top_k >= 0 returns at most top_k
\* entries, each a distinct candidate (an entry whose history position is in
\* the posting list of a query word) with a score > 0, in non-increasing score
\* order, and no candidate that is left out has a strictly higher score than
\* one that is returned.
C15_TopKByScore ==
    mem_call.op = "find_relevant"
    => LET query_words == QueryWords(mem_call.keep[1])
           top_k == mem_call.keep[2]
           r == mem_ret.val
           candidates == {i \in CandidateIndices(query_words) : i < Len(history)}
           score(e) == Score(query_words, e.content)
           returned == {PositionOf(r[j]) : j \in DOMAIN r}
       IN  /\ mem_ret.kind = "value"
           /\ Len(r) <= top_k
           /\ \A j \in DOMAIN r :
                 /\ \E i \in 0..(Len(history) - 1) : history[i + 1] = r[j]
                 /\ PositionOf(r[j]) \in candidates
                 /\ score(r[j]) > 0
           /\ \A j1, j2 \in DOMAIN r :
                 /\ j1 # j2 => r[j1].uid # r[j2].uid
                 /\ j1 < j2 => score(r[j1]) >= score(r[j2])
           /\ \A i \in candidates \ returned : \A j \in DOMAIN r :
                 score(history[i + 1]) <= score(r[j])

\* find_relevant with top_k = 1 has just returned one of two candidates, the
\* one left out having the lower score
C15_Witness ==
    /\ mem_call.op = "find_relevant"
    /\ mem_call.keep[2] = 1
    /\ mem_ret.kind = "value"
    /\ Len(mem_ret.val) = 1
    /\ LET query_words == QueryWords(mem_call.keep[1]) IN
       \E i \in CandidateIndices(query_words) :
          /\ i < Len(history)
          /\ history[i + 1].uid # mem_ret.val[1].uid
          /\ Score(query_words, history[i + 1].content)
                < Score(query_words, mem_ret.val[1].content)

(***************************************************************************)
(* Further claims about ToolCache.                                         *)
(***************************************************************************)

\* C16: get, set, remove and clear complete without raising for every
\* max_size >= 0 and every ttl, and a get or remove of a key that is not
\* present returns None / leaves the cache as it is.
C16_CacheOperationsTotal ==
    [][/\ cache_ret'.kind # "raised"
       /\ \A t \in ToolNames, a \in ArgInputs :
             GenerateKey(t, a) \notin CacheKeys
             => /\ CacheGet(t, a) => (cache_ret' = RetNone /\ cache' = cache)
                /\ CacheRemove(t, a) => cache' = cache]_vars

\* The same statement for max_size >= 1.
CacheOperationsTotalForPositiveMaxSize ==
    [][max_size >= 1
       => /\ cache_ret'.kind # "raised"
          /\ \A t \in ToolNames, a \in ArgInputs :
                GenerateKey(t, a) \notin CacheKeys
                => /\ CacheGet(t, a) => (cache_ret' = RetNone /\ cache' = cache)
                   /\ CacheRemove(t, a) => cache' = cache]_vars

\* args and args2 hold the same name/value pairs
SamePairs(args, args2) == Range(args) = Range(args2)

\* C17: _generate_key gives the same key for every ordering of the items of an
\* argument mapping, so the get that follows a set(name, args, v) which stored
\* its result, called with the same name and the same name/value pairs in any
\* order, returns v (as long as the entry has not outlived ttl).
C17_KeyStability ==
    /\ \A t \in ToolNames, a \in ArgInputs, a2 \in ArgInputs :
          SamePairs(a, a2) => GenerateKey(t, a) = GenerateKey(t, a2)
    /\ (/\ passed.set # <<>>
        /\ passed.get # <<>>
        /\ passed.get[1] = passed.set[1]
        /\ SamePairs(passed.get[2], passed.set[2])
        /\ (ttl = <<>> \/ now - passed.set[4] <= ttl[1]))
       => cache_ret = RetValue(passed.set[3])

\* a get has just returned the result of a set that passed the same pairs in
\* another order
C17_Witness ==
    /\ passed.set # <<>>
    /\ passed.get # <<>>
    /\ passed.get[1] = passed.set[1]
    /\ SamePairs(passed.get[2], passed.set[2])
    /\ passed.get[2] # passed.set[2]
    /\ cache_ret = RetValue(passed.set[3])


\* the entries of history whose type is in entry_types, all of them when
\* entry_types is None
Matches(entry_types) ==
    IF entry_types = <<>> THEN history
    ELSE SelectSeq(history, LAMBDA e : TypeIn(e, entry_types[1]))

\* C18: get_history(last_n, entry_types) returns the entries of history whose
\* type is in entry_types (all entries when entry_types is None), restricted to
\* the last min(last_n, number of matches) of them in their order for every
\* last_n >= 0 (so none for last_n = 0), and all matches when last_n is None.
C18_GetHistoryFilterLastN ==
    mem_call.op = "get_history"
    => LET last_n == mem_call.keep[1]
           all == Matches(mem_call.keep[2])
       IN  mem_ret = RetValue(IF last_n = <<>> THEN all
                              ELSE Last(all, Min(last_n[1], Len(all))))

\* The same statement for last_n >= 1 or None and entry_types None or a list
\* that names at least one type.
GetHistoryFilterLastNPositive ==
    (mem_call.op = "get_history" /\ mem_call.keep[1] # <<0>>
        /\ mem_call.keep[2] # << <<>> >>)
    => LET last_n == mem_call.keep[1]
           all == Matches(mem_call.keep[2])
       IN  mem_ret = RetValue(IF last_n = <<>> THEN all
                              ELSE Last(all, Min(last_n[1], Len(all))))


\* C19: summarize_thread never raises; for a thread that holds entries and a
\* summariser whose generate raises it returns the fallback string that
\* reports the number of messages of the thread; for an empty or unknown
\* thread it returns the 'no messages' string without calling the summariser;
\* and it changes neither history nor threads nor the keyword index.
C19_SummarizeNeverPropagates ==
    [][\A t \in ThreadIds \cup {"C"}, llm \in LlmInputs :
         SummarizeThreadCall(t, llm)
         => LET n == Len(ThreadEntries(t)) IN
            /\ mem_ret'.kind = "value"
            /\ (n > 0 /\ llm = "raises")
                  => mem_ret' = Summary("Error generating summary: e. Thread has n messages.", n)
            /\ n = 0
                  => /\ mem_ret' = Summary("No messages in this thread.", 0)
                     /\ mem_call'.keep[3] = FALSE
            /\ UNCHANGED <<history, threads, indexed_content>>]_vars

\* summarize_thread has just returned the fallback for a thread that holds
\* some but not all entries of the history, generate having raised
C19_Witness ==
    /\ mem_call.op = "summarize_thread"
    /\ mem_call.keep[2] = "raises"
    /\ mem_call.keep[3] = TRUE
    /\ mem_ret.kind = "value"
    /\ mem_ret.val.messages = Len(ThreadEntries(mem_call.keep[1]))
    /\ mem_ret.val.messages >= 1
    /\ mem_ret.val.messages < Len(history)


(***************************************************************************)
(* Claims about State, checked under SpecState.                            *)
(***************************************************************************)

\* C20: after every State.set and append_to, version equals the length of the
\* change log and the record at (0-based) position i carries version i; the
\* records already in the log stay as they are and in their places; and each
\* set or append_to that succeeds adds exactly one record.
C20_VersionMatchesLog ==
    [][/\ version' = Len(state_history')
       /\ \A i \in DOMAIN state_history' : state_history'[i].version = i - 1
       /\ Len(state_history') >= Len(state_history)
       /\ SubSeq(state_history', 1, Len(state_history)) = state_history
       /\ state_ret'.kind # "raised"
             => Len(state_history') = Len(state_history) + 1]_vars

\* the log holds two records or more, one of them made by an append_to that
\* extended the list an earlier record already named
C20_Witness ==
    /\ Len(state_history) >= 2
    /\ version = Len(state_history)
    /\ \E i, j \in DOMAIN state_history :
          /\ i < j
          /\ state_history[i].value.kind = "list"
          /\ state_history[j].value = state_history[i].value
          /\ Len(lists[state_history[i].value.v]) >= 2

(***************************************************************************)
(* Claims about add_to_thread racing prune_history, checked under SpecRace. *)
(***************************************************************************)

\* no call is under way
Quiescent == adder.pc = "idle" /\ pruner.pc = "idle"

\* a thread list or a posting list holds an index >= len(history)
StaleIndex == \E l \in IndexLists : \E j \in DOMAIN l : l[j] >= Len(history)

\* a thread list or a posting list, all of its indices being valid, resolves
\* to entries other than the ones its indices were recorded for
WrongReferent ==
    \/ \E t \in DOMAIN threads :
          InRange(threads[t]) /\ ~IsSubseq(Referents(threads[t]), appended[t])
    \/ \E w \in DOMAIN indexed_content :
          /\ InRange(indexed_content[w])
          /\ ~IsSubseq(Referents(indexed_content[w]), posted[w])

\* C21: when add_to_thread and prune_history run unsynchronised, one
\* statement at a time, a thread list or a posting list can come to hold an
\* index >= len(history) or an index of another entry than the one it was
\* recorded for (C21_Witness); as long as every call has run from its first
\* statement to its last with no statement of the other activity in between,
\* every stored index is valid and resolves to the entry it was recorded for.
C21_RaceNeedsInterleaving ==
    (Quiescent /\ ~preempted) => (C4_IndexValidity /\ C5_ReferentPreserved)

\* both calls have returned after running inside each other, and the memory is
\* left with an index beyond the history and with a list that resolves to an
\* entry it was not recorded for
C21_Witness == Quiescent /\ preempted /\ StaleIndex /\ WrongReferent

(***************************************************************************)
(* Overwriting a cached key, checked under SpecOverwrite.                  *)
(***************************************************************************)

\* C22: a set on a key that is present stores the new result under it with
\* the time of the call, keeps every other entry, takes nothing out of the
\* dict and leaves the dict's order (the eviction order) as it was; and
\* whenever a set does take an entry out, it is the entry at the head of the
\* dict, whose key is the earliest inserted of the keys present, whatever
\* the timestamps are.
C22_OverwriteKeepsPosition ==
    [][\A t \in ToolNames, a \in OverwriteArgInputs, r \in Results :
         LET key == GenerateKey(t, a) IN
         CacheSet(t, a, r)
         => /\ key \in CacheKeys
               => /\ Len(cache') = Len(cache)
                  /\ \A i \in DOMAIN cache :
                        cache'[i] = IF cache[i].key = key
                                    THEN [key |-> key, result |-> r,
                                          timestamp |-> now]
                                    ELSE cache[i]
                  /\ last_drop' = NoDrop
                  /\ ins_order' = ins_order
            /\ last_drop'.keys # {}
               => /\ last_drop'.keys = {Head(ins_order)}
                  /\ cache[1].key = Head(ins_order)]_vars

\* a set has just overwritten the earliest inserted key of a full cache: the
\* entry the next eviction removes carries the time of this call, and an
\* entry behind it an older one
C22_Witness ==
    /\ max_size >= 2
    /\ Len(cache) = max_size
    /\ last_drop = NoDrop
    /\ cache_ret = RetNone
    /\ cache[1].key = Head(ins_order)
    /\ last_set[cache[1].key].at = now
    /\ cache[1].timestamp = now
    /\ \E i \in DOMAIN cache : cache[i].timestamp < cache[1].timestamp

(***************************************************************************)
(* Claims about the classified views, checked under SpecViews.             *)
(***************************************************************************)

\* the entries of l that add_to_history classifies as `type`
OfType(l, type) == SelectSeq(l, LAMBDA e : e.type = <<type>>)

\* l with e appended when e is of type `type`, and l otherwise
Classified(l, e, type) == IF e.type = <<type>> THEN Append(l, e) ELSE l

\* entry e is in list l, as Python's `in` finds it: by the items of the dict
In(e, l) == \E i \in DOMAIN l : JsonEntry(l[i]) = JsonEntry(e)

\* C23: a call of add_to_history (also the one add_to_thread makes) appends
\* the entry it stored to reasoning_steps when its type is "reasoning", to
\* tool_calls when its type is "tool_call", and changes neither view
\* otherwise; prune_history and load_from_file change neither view and not
\* the key/value storage.
C23_ViewsOutsidePrune ==
    [][/\ mem_call'.op \in {"add_to_history", "add_to_thread"}
          => LET e == history'[Len(history')] IN
             /\ reasoning_steps' = Classified(reasoning_steps, e, "reasoning")
             /\ tool_calls' = Classified(tool_calls, e, "tool_call")
       /\ mem_call'.op \in {"prune_history", "load_from_file"}
          => /\ reasoning_steps' = reasoning_steps
             /\ tool_calls' = tool_calls
             /\ storage' = storage]_vars

\* a load has replaced the history while the storage holds a value: a view
\* holds an entry that is not in the history, and neither view is the history
\* filtered by its type
C23_Witness ==
    /\ mem_call.op = "load_from_file"
    /\ caught = "none"
    /\ storage # <<>>
    /\ \E i \in DOMAIN reasoning_steps : ~In(reasoning_steps[i], history)
    /\ JsonEntries(reasoning_steps) # JsonEntries(OfType(history, "reasoning"))
    /\ JsonEntries(tool_calls) # JsonEntries(OfType(history, "tool_call"))

\* the same after a prune
ViewsAfterPrune ==
    /\ mem_call.op = "prune_history"
    /\ \E i \in DOMAIN tool_calls : ~In(tool_calls[i], history)
    /\ JsonEntries(reasoning_steps) # JsonEntries(OfType(history, "reasoning"))
    /\ JsonEntries(tool_calls) # JsonEntries(OfType(history, "tool_call"))

(***************************************************************************)
(* Claims about the length of the history, checked under SpecGrow.         *)
(***************************************************************************)

\* C24: every call of add_to_thread and of add_to_history makes the history
\* one entry longer, whatever max_history_length is, and a call that makes
\* the history shorter is a call of prune_history or of load_from_file; so
\* the history can be longer than max_history_length (C24_Witness).
C24_GrowthUnbounded ==
    [][/\ mem_call'.op \in {"add_to_thread", "add_to_history"}
          => Len(history') = Len(history) + 1
       /\ Len(history') < Len(history)
          => mem_call'.op \in {"prune_history", "load_from_file"}]_vars

\* an add_to_thread has just made the history longer than max_history_length
C24_Witness ==
    /\ mem_call.op = "add_to_thread"
    /\ Len(history) > max_history_length

====
